---- MODULE Spec2Model ----
(***************************************************************************)
(* Model of src/server.js: the product catalogue API (create, list,       *)
(* update, delete) over a relational store and an object-storage bucket,  *)
(* guarded by a shared admin secret.                                       *)
(*                                                                         *)
(* JavaScript strings are sequences of one-letter tokens; undefined and    *)
(* null are the one-element sequences UNDEF and NULL, whose token is not a *)
(* letter.  A request body is a function from the fields it carries to     *)
(* their strings.  Each handler runs atomically from one await to the      *)
(* next; every call to the store or the bucket may fail.                   *)
(***************************************************************************)
EXTENDS Integers, Sequences, FiniteSets, TLC

\* ---------------------------------------------------------------- bounds
MaxReqs == 2        \* requests received in one behaviour
MaxId == 2          \* ids a PUT or DELETE may name: 1..MaxId
MaxTime == 2        \* values Date.now() returns: 1..MaxTime
MaxPage == 3        \* page numbers a list request asks for: 1..MaxPage
MaxLimit == 2       \* page sizes a list request asks for: 1..MaxLimit
MaxRows == 3        \* rows of a catalogue SpecList starts from: 0..MaxRows

\* ------------------------------------------------------- JavaScript values
UNDEF == <<"undefined">>
NULL == <<"null">>
EMPTY == <<>>
TRUESTR == <<"t", "r", "u", "e">>

\* !v is FALSE: v is neither undefined, null nor the empty string
Truthy(v) == v # UNDEF /\ v # NULL /\ v # EMPTY

\* v || null
OrNull(v) == IF Truthy(v) THEN v ELSE NULL

\* req.body.f, undefined when the body lacks f
Get(body, f) == IF f \in DOMAIN body THEN body[f] ELSE UNDEF

Min(a, b) == IF a < b THEN a ELSE b

\* the decimal digits of a timestamp
TimeStr(t) == <<"0", "1", "2", "3", "4", "5", "6", "7", "8", "9">>[t + 1]

RECURSIVE DropWs(_)
DropWs(s) == IF s # <<>> /\ Head(s) = " " THEN DropWs(Tail(s)) ELSE s

\* s.replace(/\s+/g, '-'): every run of whitespace becomes one hyphen
RECURSIVE Sanitize(_)
Sanitize(s) ==
    IF s = <<>> THEN <<>>
    ELSE IF Head(s) = " " THEN <<"-">> \o Sanitize(DropWs(Tail(s)))
    ELSE <<Head(s)>> \o Sanitize(Tail(s))

\* multer's filename callback: Date.now() + '-' + sanitized original name
Filename(t, orig) == <<TimeStr(t), "-">> \o Sanitize(orig)

\* create: `public/${Date.now()}-${imageFile.filename}`
CreatePath(t, filename) == <<"public/", TimeStr(t), "-">> \o filename

\* update: `public/${Date.now()}-${imageFile.filename.replace(/\s+/g, '-')}`
UpdatePath(t, filename) == <<"public/", TimeStr(t), "-">> \o Sanitize(filename)

BaseUrl == "https://project.supabase.co"
Marker == "/storage/v1/object/public/product-images/"

\* storage.from(bucketName).getPublicUrl(path).data.publicUrl
PublicUrl(path) == <<BaseUrl, Marker>> \o path

\* s.split(sep), sep one token: the pieces of s between occurrences of sep
RECURSIVE Split(_, _)
Split(s, sep) ==
    IF s = <<>> THEN << <<>> >>
    ELSE LET rest == Split(Tail(s), sep)
         IN IF Head(s) = sep THEN << <<>> >> \o rest
            ELSE << <<Head(s)>> \o Head(rest) >> \o Tail(rest)

\* file.mimetype.startsWith('image/')
IsImage(mime) == mime # <<>> /\ Head(mime) = "image/"

\* ------------------------------------------------------------ the inputs
S_T == <<"T">>
S_te == <<"t", "e">>

TextFields == {"name", "description", "affiliateLink", "price", "category"}
Fields == TextFields \cup {"isTopPick"}

FieldValues(f) == IF f = "isTopPick" THEN {TRUESTR, S_T} ELSE {EMPTY, S_T}

FullBody(v, top) ==
    [f \in Fields |-> IF f = "isTopPick" THEN top ELSE v]

\* bodies carrying at most one field
SparseBodies ==
    {<<>>} \cup UNION {{[g \in {f} |-> v] : v \in FieldValues(f)} : f \in Fields}

CreateBodies ==
    { FullBody(S_T, TRUESTR),
      [name |-> S_T, affiliateLink |-> S_te],
      [name |-> S_T, affiliateLink |-> S_te, description |-> EMPTY,
       price |-> EMPTY, category |-> EMPTY, isTopPick |-> S_T],
      [affiliateLink |-> S_te],
      [name |-> EMPTY, affiliateLink |-> S_te],
      [name |-> S_T] }

UpdateBodies == SparseBodies \cup {FullBody(S_T, TRUESTR)}

SECRET == <<"s">>
Headers == {UNDEF, EMPTY, SECRET, <<"S">>}

NoUpload == [mime |-> <<>>, orig |-> <<>>]
OrigNames == {<<"a", " ", "b">>, <<"a", " ", " ", "b">>, <<"a", "-", "b">>}
Uploads ==
    {NoUpload} \cup
    {[mime |-> m, orig |-> o] : m \in {<<"image/", "png">>, <<"text/", "plain">>},
                                o \in OrigNames}

\* what a PUT carries: any of the bodies without an image, or an image with
\* no field or with a name
UpdateInputs ==
    (UpdateBodies \X {NoUpload}) \cup
    ({<<>>, [name |-> S_T]} \X (Uploads \ {NoUpload}))

Ids == 1..MaxId

\* ------------------------------------------------------------- the state
VARIABLES
    adminSecret,    \* ADMIN_SECRET: process.env.ADMIN_SECRET_KEY, or UNDEF
    rows,           \* the products table: id -> row
    nextId,         \* the id the store gives the next inserted row
    bucket,         \* the paths of the objects in bucket product-images
    files,          \* the uploads directory: file name -> the request that wrote it
    now,            \* the last value Date.now() returned
    reqs,           \* the requests received, in order of arrival
    listed          \* the last list request and the response it got

vars == <<adminSecret, rows, nextId, bucket, files, now, reqs, listed>>

\* a request as received, before any middleware has run
NewReq(kind, id) ==
    [kind |-> kind, pc |-> "start", status |-> 0, secret |-> UNDEF, id |-> id,
     body |-> <<>>, file |-> <<>>, path |-> <<>>, data |-> <<>>,
     image |-> UNDEF, handled |-> FALSE, calls |-> {}, hit |-> "-",
     error |-> "none"]

\* res.status(code).json(...)
Answer(r, code) == [r EXCEPT !.pc = "done", !.status = code]

\* the error an awaited call returned, thrown to the handler's catch
Throw(r, what) == [r EXCEPT !.pc = "done", !.status = 500, !.error = what]

\* the row an earlier create left in the store
SeedPath == CreatePath(0, Filename(0, <<"a">>))
SeedRow ==
    [name |-> S_te, description |-> S_te, affiliate_link |-> S_te,
     price |-> S_te, image_url |-> PublicUrl(SeedPath), category |-> S_te,
     is_top_pick |-> FALSE, created_at |-> 1]

\* no list request has been answered
NoList ==
    [category |-> UNDEF, search |-> UNDEF, limit |-> UNDEF, status |-> 0,
     error |-> "none", products |-> <<>>, totalProducts |-> 0, currentPage |-> 0,
     totalPages |-> 0]

Init ==
    /\ adminSecret \in {UNDEF, SECRET}
    /\ rows = (1 :> SeedRow)
    /\ nextId = 2
    /\ bucket = {SeedPath}
    /\ files = <<>>
    /\ now = 1
    /\ reqs = <<>>
    /\ listed = NoList

\* ------------------------------------------------------------ admin guard
\* authenticateAdmin letting a request without the header through
AuthenticateHeaderOptional(secret, provided) ==
    IF ~Truthy(secret) THEN TRUE
    ELSE ~Truthy(provided) \/ provided = secret

\* authenticateAdmin: next() is called
Authenticate(secret, provided) ==
    IF ~Truthy(secret) THEN TRUE
    ELSE Truthy(provided) /\ provided = secret

\* const providedSecret = req.headers['x-admin-secret-key'], read only when
\* a secret is configured
ProvidedSecret(secret, header) == IF ~Truthy(secret) THEN UNDEF ELSE header

\* ----------------------------------------------------------------- create
\* line 99 without the affiliate-link test
CreateInvalidNoLink(body, staged) ==
    ~Truthy(Get(body, "name")) \/ ~staged

\* line 99: !name || !affiliateLink || !imageFile
CreateInvalid(body, staged) ==
    ~Truthy(Get(body, "name")) \/ ~Truthy(Get(body, "affiliateLink")) \/ ~staged

\* lines 159-168: the row create inserts
ProductData(body, imageUrl) ==
    [name |-> Get(body, "name"),
     description |-> OrNull(Get(body, "description")),
     affiliate_link |-> Get(body, "affiliateLink"),
     price |-> OrNull(Get(body, "price")),
     image_url |-> imageUrl,
     category |-> OrNull(Get(body, "category")),
     is_top_pick |-> (Get(body, "isTopPick") = TRUESTR)]

\* a cleanup that removes nothing
UnlinkNothing(fs, f) == fs

\* fs.existsSync(path) && fs.unlinkSync(path); no file was staged when f = <<>>
Unlink(fs, f) == [k \in DOMAIN fs \ {f} |-> fs[k]]

\* multer writes request i's upload to uploads/f
Stage(fs, f, i) == (f :> i) @@ fs

\* POST /api/products up to its first await: authenticateAdmin, multer
\* (fileFilter, then the file staged under uploads/), lines 96-114
PostArrive ==
    /\ Len(reqs) < MaxReqs
    /\ \E h \in Headers, b \in CreateBodies, u \in Uploads, t1 \in now..MaxTime :
       \E t2 \in t1..MaxTime :
        LET r0 == [NewReq("POST", 0) EXCEPT !.secret = ProvidedSecret(adminSecret, h)]
            staged == u # NoUpload
            fname == Filename(t1, u.orig)
            r1 == [r0 EXCEPT !.body = b, !.handled = TRUE,
                             !.file = IF staged THEN fname ELSE <<>>]
            me == Len(reqs) + 1
        IN  IF ~Authenticate(adminSecret, h) THEN
                /\ reqs' = Append(reqs, Answer(r0, 401))
                /\ UNCHANGED <<files, now>>
            ELSE IF staged /\ ~IsImage(u.mime) THEN
                \* fileFilter's error goes to the framework's error handler
                /\ reqs' = Append(reqs, Throw(r0, "multer"))
                /\ UNCHANGED <<files, now>>
            ELSE IF CreateInvalid(b, staged) THEN
                /\ reqs' = Append(reqs, Answer(r1, 400))
                /\ files' = IF staged THEN Unlink(Stage(files, fname, me), fname)
                                       ELSE files
                /\ now' = IF staged THEN t1 ELSE now
            ELSE
                /\ reqs' = Append(reqs, [r1 EXCEPT !.pc = "upload",
                                                   !.path = CreatePath(t2, fname)])
                /\ files' = Stage(files, fname, me)
                /\ now' = t2
    /\ UNCHANGED <<adminSecret, listed, rows, nextId, bucket>>

\* lines 117-138 without the test of the public URL
CreateStorageNoUrlTest(ok, urlOk, path, objects) ==
    IF ~ok \/ path \in objects THEN "upload" ELSE "none"

\* lines 117-138: how the storage step of create ends. The upload, made with
\* {upsert: false}, fails when the call fails or the path holds an object;
\* then the public URL must be there
CreateStorage(ok, urlOk, path, objects) ==
    IF ~ok \/ path \in objects THEN "upload"
    ELSE IF ~urlOk THEN "url"
    ELSE "none"

\* lines 117-157: the upload settles, the public URL is resolved, the staged
\* file is removed, and the row is built
PostUpload(i) ==
    /\ reqs[i].kind = "POST" /\ reqs[i].pc = "upload"
    /\ \E ok \in BOOLEAN, urlOk \in BOOLEAN :
        LET r == [reqs[i] EXCEPT !.calls = @ \cup {"upload"}]
            end == CreateStorage(ok, urlOk, r.path, bucket)
            url == IF urlOk THEN PublicUrl(r.path) ELSE UNDEF
        IN  IF end = "upload" THEN
                /\ reqs' = [reqs EXCEPT ![i] = Throw(r, "upload")]
                /\ bucket' = bucket
            ELSE IF end = "url" THEN
                /\ reqs' = [reqs EXCEPT ![i] = Throw(r, "url")]
                /\ bucket' = bucket \cup {r.path}
            ELSE
                /\ reqs' = [reqs EXCEPT ![i] =
                              [r EXCEPT !.pc = "insert",
                                        !.image = url,
                                        !.data = ProductData(r.body, url)]]
                /\ bucket' = bucket \cup {r.path}
    /\ files' = Unlink(files, reqs[i].file)
    /\ UNCHANGED <<adminSecret, listed, rows, nextId, now>>

\* the store's insert: the row gets its id and its created_at
Inserted(table, id, data) ==
    table @@ (id :> [f \in DOMAIN data \cup {"created_at"} |->
                        IF f = "created_at" THEN id ELSE data[f]])

\* lines 174-197: the insert settles
PostInsert(i) ==
    /\ reqs[i].kind = "POST" /\ reqs[i].pc = "insert"
    /\ \E ok \in BOOLEAN :
        LET r == [reqs[i] EXCEPT !.calls = @ \cup {"insert"}]
        IN  IF ~ok THEN
                /\ reqs' = [reqs EXCEPT ![i] = Throw(r, "insert")]
                /\ files' = Unlink(files, r.file)
                /\ UNCHANGED <<rows, nextId>>
            ELSE
                /\ reqs' = [reqs EXCEPT ![i] = Answer([r EXCEPT !.id = nextId], 201)]
                /\ rows' = Inserted(rows, nextId, r.data)
                /\ nextId' = nextId + 1
                /\ files' = files
    /\ UNCHANGED <<adminSecret, listed, bucket, now>>

\* ----------------------------------------------------------------- update
\* lines 293-298 testing each field for truth, not for presence
UpdateDataTruthy(body) ==
    LET col(f) == CASE f = "affiliateLink" -> "affiliate_link"
                    [] f = "isTopPick" -> "is_top_pick"
                    [] OTHER -> f
        val(c) == CASE c = "affiliate_link" -> body["affiliateLink"]
                    [] c = "is_top_pick" -> (body["isTopPick"] = TRUESTR)
                    [] OTHER -> body[c]
    IN  [c \in {col(f) : f \in {g \in DOMAIN body : Truthy(body[g])}} |-> val(c)]

\* lines 282-298: the partial-update record, one entry per field the body has
UpdateData(body) ==
    LET col(f) == CASE f = "affiliateLink" -> "affiliate_link"
                    [] f = "isTopPick" -> "is_top_pick"
                    [] OTHER -> f
        val(c) == CASE c = "name" -> body["name"]
                    [] c = "description" -> OrNull(body["description"])
                    [] c = "affiliate_link" -> body["affiliateLink"]
                    [] c = "price" -> OrNull(body["price"])
                    [] c = "category" -> OrNull(body["category"])
                    [] c = "is_top_pick" -> (body["isTopPick"] = TRUESTR)
    IN  [c \in {col(f) : f \in DOMAIN body} |-> val(c)]

\* PUT /api/products/:id up to its first await: authenticateAdmin, multer,
\* lines 271-305 with a new image, lines 271-345 without one
PutArrive ==
    /\ Len(reqs) < MaxReqs
    /\ \E h \in Headers, id \in Ids, in \in UpdateInputs, t1 \in now..MaxTime :
       \E t2 \in t1..MaxTime :
        LET b == in[1]
            u == in[2]
            r0 == [NewReq("PUT", id) EXCEPT !.secret = ProvidedSecret(adminSecret, h)]
            staged == u # NoUpload
            fname == Filename(t1, u.orig)
            r1 == [r0 EXCEPT !.body = b, !.data = UpdateData(b), !.handled = TRUE,
                             !.file = IF staged THEN fname ELSE <<>>]
            me == Len(reqs) + 1
        IN  IF ~Authenticate(adminSecret, h) THEN
                /\ reqs' = Append(reqs, Answer(r0, 401))
                /\ UNCHANGED <<files, now>>
            ELSE IF staged /\ ~IsImage(u.mime) THEN
                /\ reqs' = Append(reqs, Throw(r0, "multer"))
                /\ UNCHANGED <<files, now>>
            ELSE IF staged THEN
                /\ reqs' = Append(reqs, [r1 EXCEPT !.pc = "upload",
                                                   !.path = UpdatePath(t2, fname)])
                /\ files' = Stage(files, fname, me)
                /\ now' = t2
            ELSE
                \* lines 335-341 only log that the record is empty
                /\ reqs' = Append(reqs, [r1 EXCEPT !.pc = "update"])
                /\ UNCHANGED <<files, now>>
    /\ UNCHANGED <<adminSecret, listed, rows, nextId, bucket>>

\* lines 308-323: how the storage step of update ends. The upload, made with
\* {upsert: true}, overwrites
UpdateStorage(ok, urlOk, path, objects) ==
    IF ~ok THEN "upload"
    ELSE IF ~urlOk THEN "url"
    ELSE "none"

\* lines 308-329, and the catch of lines 370-376 when the upload or the URL
\* resolution fails
PutUpload(i) ==
    /\ reqs[i].kind = "PUT" /\ reqs[i].pc = "upload"
    /\ \E ok \in BOOLEAN, urlOk \in BOOLEAN :
        LET r == [reqs[i] EXCEPT !.calls = @ \cup {"upload"}]
            end == UpdateStorage(ok, urlOk, r.path, bucket)
            url == IF urlOk THEN PublicUrl(r.path) ELSE UNDEF
        IN  IF end = "upload" THEN
                /\ reqs' = [reqs EXCEPT ![i] = Throw(r, "upload")]
                /\ bucket' = bucket
            ELSE IF end = "url" THEN
                /\ reqs' = [reqs EXCEPT ![i] = Throw(r, "url")]
                /\ bucket' = bucket \cup {r.path}
            ELSE
                /\ reqs' = [reqs EXCEPT ![i] =
                              [r EXCEPT !.pc = "update",
                                        !.image = url,
                                        !.data = ("image_url" :> url) @@ @]]
                /\ bucket' = bucket \cup {r.path}
    /\ files' = Unlink(files, reqs[i].file)
    /\ UNCHANGED <<adminSecret, listed, rows, nextId, now>>

\* the store's update of one row: the columns of the record replace the
\* row's, the others stay
Merge(row, data) ==
    [c \in DOMAIN row |-> IF c \in DOMAIN data THEN data[c] ELSE row[c]]

\* .update(data).eq('id', id).select().single(): "error" when the call fails
\* or when the result is not exactly one row, the row's id otherwise
UpdateSingle(ok, table, id) ==
    IF ok /\ id \in DOMAIN table THEN "row" ELSE "error"

\* lines 345-376: the update settles
PutUpdate(i) ==
    /\ reqs[i].kind = "PUT" /\ reqs[i].pc = "update"
    /\ \E ok \in BOOLEAN :
        LET r == [reqs[i] EXCEPT !.calls = @ \cup {"update"},
                                 !.hit = IF reqs[i].id \in DOMAIN rows
                                         THEN "row" ELSE "none"]
            res == UpdateSingle(ok, rows, r.id)
        IN  IF res = "error" THEN
                /\ reqs' = [reqs EXCEPT ![i] = Throw(r, "update")]
                /\ files' = Unlink(files, r.file)
                /\ rows' = rows
            ELSE IF res = "null" THEN
                \* if (!dbData): data and error both null
                /\ reqs' = [reqs EXCEPT ![i] = Answer(r, 404)]
                /\ UNCHANGED <<files, rows>>
            ELSE
                /\ reqs' = [reqs EXCEPT ![i] = Answer(r, 200)]
                /\ rows' = [rows EXCEPT ![r.id] = Merge(@, r.data)]
                /\ files' = files
    /\ UNCHANGED <<adminSecret, listed, nextId, bucket, now>>

\* ----------------------------------------------------------------- delete
\* DELETE /api/products/:id up to its first await: authenticateAdmin
DelArrive ==
    /\ Len(reqs) < MaxReqs
    /\ \E h \in Headers, id \in Ids :
        LET r0 == [NewReq("DELETE", id) EXCEPT !.secret = ProvidedSecret(adminSecret, h)]
        IN  IF ~Authenticate(adminSecret, h)
            THEN reqs' = Append(reqs, Answer(r0, 401))
            ELSE reqs' = Append(reqs, [r0 EXCEPT !.pc = "fetch"])
    /\ UNCHANGED <<adminSecret, listed, rows, nextId, bucket, files, now>>

\* lines 386-397: productToDelete.image_url, UNDEF when the select failed or
\* found no row; the handler goes on either way
DelFetch(i) ==
    /\ reqs[i].kind = "DELETE" /\ reqs[i].pc = "fetch"
    /\ \E ok \in BOOLEAN :
        LET r == reqs[i]
            found == ok /\ r.id \in DOMAIN rows
        IN  reqs' = [reqs EXCEPT ![i] =
                       [r EXCEPT !.pc = "delete",
                                 !.calls = @ \cup {"fetch"},
                                 !.hit = IF r.id \in DOMAIN rows THEN "row" ELSE "none",
                                 !.image = IF found THEN rows[r.id].image_url ELSE UNDEF]]
    /\ UNCHANGED <<adminSecret, listed, rows, nextId, bucket, files, now>>

\* a delete whose filter matches no row
DeletedNothing(table, id) == table

\* .delete().eq('id', id): the table without the row
Deleted(table, id) == [k \in DOMAIN table \ {id} |-> table[k]]

\* lines 412-419: the path the handler asks the bucket to remove, <<>> when
\* it asks for nothing
RemovalPath(imageUrl) ==
    IF Truthy(imageUrl) /\ Len(Split(imageUrl, Marker)) > 1
    THEN Split(imageUrl, Marker)[2]
    ELSE <<>>

\* lines 400-420 and 433-438: the row deletion settles
DelDelete(i) ==
    /\ reqs[i].kind = "DELETE" /\ reqs[i].pc = "delete"
    /\ \E ok \in BOOLEAN :
        LET r == [reqs[i] EXCEPT !.calls = @ \cup {"delete"}]
        IN  IF ~ok THEN
                /\ reqs' = [reqs EXCEPT ![i] = Throw(r, "delete")]
                /\ rows' = rows
            ELSE IF RemovalPath(r.image) = <<>> THEN
                /\ reqs' = [reqs EXCEPT ![i] = Answer(r, 200)]
                /\ rows' = Deleted(rows, r.id)
            ELSE
                /\ reqs' = [reqs EXCEPT ![i] =
                              [r EXCEPT !.pc = "remove", !.path = RemovalPath(r.image)]]
                /\ rows' = Deleted(rows, r.id)
    /\ UNCHANGED <<adminSecret, listed, nextId, bucket, files, now>>

\* lines 421-433: the removal settles; its failure is only logged
DelRemove(i) ==
    /\ reqs[i].kind = "DELETE" /\ reqs[i].pc = "remove"
    /\ \E ok \in BOOLEAN :
        /\ bucket' = IF ok THEN bucket \ {reqs[i].path} ELSE bucket
        /\ reqs' = [reqs EXCEPT ![i] =
                      Answer([@ EXCEPT !.calls = @ \cup {"remove"},
                                       !.error = IF ok THEN "none" ELSE "remove"], 200)]
    /\ UNCHANGED <<adminSecret, listed, rows, nextId, files, now>>

\* ------------------------------------------------------------------- list
DefaultPage == 1
DefaultLimit == 12

DigitValue(d) == CHOOSE n \in 0..9 : TimeStr(n) = d

\* parseInt(s, 10) of a string of decimal digits
RECURSIVE ParseInt(_)
ParseInt(s) ==
    IF Len(s) = 1 THEN DigitValue(s[1])
    ELSE 10 * ParseInt(SubSeq(s, 1, Len(s) - 1)) + DigitValue(s[Len(s)])

\* const { page = 1 } = req.query; parseInt(page, 10)
PageNum(page) == IF page = UNDEF THEN DefaultPage ELSE ParseInt(page)

\* const { limit = 12 } = req.query; parseInt(limit, 10)
LimitNum(limit) == IF limit = UNDEF THEN DefaultLimit ELSE ParseInt(limit)

LowerChar(c) == CASE c = "T" -> "t" [] c = "E" -> "e" [] OTHER -> c
Lower(s) == [k \in 1..Len(s) |-> LowerChar(s[k])]

Contains(s, sub) ==
    \E k \in 0..(Len(s) - Len(sub)) : SubSeq(s, k + 1, k + Len(sub)) = sub

\* column.ilike.%search%: never true of a null column
ILike(v, search) == v # NULL /\ Contains(Lower(v), Lower(search))

\* lines 236-244: the filters the query carries
Matches(row, category, search) ==
    /\ Truthy(category) => row.category = category
    /\ Truthy(search) => ILike(row.name, search) \/ ILike(row.description, search)

\* .order('created_at', {ascending: false}) of the rows with ids in S
RECURSIVE Newest(_, _)
Newest(table, S) ==
    IF S = {} THEN <<>>
    ELSE LET top == CHOOSE k \in S : \A j \in S : table[j].created_at <= table[k].created_at
         IN <<top>> \o Newest(table, S \ {top})

\* .range(from, to): the rows at positions from..to, counted from 0
Range(seq, from, to) == SubSeq(seq, from + 1, Min(to + 1, Len(seq)))

\* Math.floor(count / limitNum)
TotalPagesFloor(count, limitNum) == count \div limitNum

\* Math.ceil(count / limitNum)
TotalPages(count, limitNum) ==
    IF count % limitNum = 0 THEN count \div limitNum ELSE count \div limitNum + 1

Digits(n) == <<TimeStr(n)>>
Pages == {UNDEF} \cup {Digits(p) : p \in 1..MaxPage}
Limits == {UNDEF} \cup {Digits(l) : l \in 1..MaxLimit}
Categories == {UNDEF, S_T}
Searches == {UNDEF, <<"E">>}

\* GET /api/products, lines 226-265; the products of the response are
\* recorded by their ids
ListReq ==
    /\ Len(reqs) < MaxReqs
    /\ \E category \in Categories, search \in Searches, page \in Pages,
          limit \in Limits, ok \in BOOLEAN :
        LET pageNum == PageNum(page)
            limitNum == LimitNum(limit)
            offset == (pageNum - 1) * limitNum
            all == Newest(rows, {k \in DOMAIN rows : Matches(rows[k], category, search)})
            q == [NoList EXCEPT !.category = category, !.search = search,
                                !.limit = limit]
        IN  IF ~ok THEN
                /\ listed' = [NoList EXCEPT !.status = 500, !.error = "query"]
                /\ reqs' = Append(reqs, Throw(NewReq("GET", 0), "query"))
            ELSE
                /\ listed' = [q EXCEPT !.status = 200,
                                       !.products = Range(all, offset, offset + limitNum - 1),
                                       !.totalProducts = Len(all),
                                       !.currentPage = pageNum,
                                       !.totalPages = TotalPages(Len(all), limitNum)]
                /\ reqs' = Append(reqs, Answer(NewReq("GET", 0), 200))
    /\ UNCHANGED <<adminSecret, rows, nextId, bucket, files, now>>

\* ------------------------------------------------------ the specifications
Next ==
    \/ PostArrive
    \/ PutArrive
    \/ DelArrive
    \/ ListReq
    \/ \E i \in DOMAIN reqs : PostUpload(i)
    \/ \E i \in DOMAIN reqs : PostInsert(i)
    \/ \E i \in DOMAIN reqs : PutUpload(i)
    \/ \E i \in DOMAIN reqs : PutUpdate(i)
    \/ \E i \in DOMAIN reqs : DelFetch(i)
    \/ \E i \in DOMAIN reqs : DelDelete(i)
    \/ \E i \in DOMAIN reqs : DelRemove(i)

Spec == Init /\ [][Next]_vars

\* the rows of a catalogue of n products, the newest with the highest id
CatalogRow(k, kind) ==
    [name |-> IF kind = 1 THEN S_T ELSE S_te,
     description |-> IF kind = 1 THEN NULL ELSE S_te,
     affiliate_link |-> S_te, price |-> NULL,
     image_url |-> PublicUrl(CreatePath(0, Filename(0, Digits(k)))),
     category |-> IF kind = 1 THEN S_T ELSE NULL,
     is_top_pick |-> FALSE, created_at |-> k]

Catalogs ==
    UNION {{[k \in 1..n |-> CatalogRow(k, kinds[k])] : kinds \in [1..n -> {1, 2}]}
           : n \in 0..MaxRows}

\* list requests against a store that holds a catalogue
InitList ==
    /\ adminSecret = SECRET
    /\ rows \in Catalogs
    /\ nextId = Len(rows) + 1
    /\ bucket = {CreatePath(0, Filename(0, Digits(k))) : k \in DOMAIN rows}
    /\ files = <<>>
    /\ now = 1
    /\ reqs = <<>>
    /\ listed = NoList

NextList == ListReq

SpecList == InitList /\ [][NextList]_vars

\* ------------------------------------------------------------- the claims
Mutating == {"POST", "PUT", "DELETE"}

\* request i was received in this step
Arrives(i) == i \in DOMAIN reqs' /\ i \notin DOMAIN reqs

\* the header of the request differs from the configured secret, or is missing
BadSecret(r) == Truthy(adminSecret) /\ r.secret # adminSecret

\* C1: with an admin secret configured, a create, update or delete request
\* whose x-admin-secret-key header is missing or differs from the secret is
\* answered 401 at once, its handler never runs and it makes no call; the
\* step that receives it changes no row, no object and no staged file.
C1_UnauthorizedHasNoEffect ==
    [][\A i \in DOMAIN reqs' :
         (reqs'[i].kind \in Mutating /\ BadSecret(reqs'[i])) =>
             /\ reqs'[i].status = 401 /\ reqs'[i].pc = "done"
             /\ ~reqs'[i].handled /\ reqs'[i].calls = {}
             /\ reqs'[i].file = <<>>
             /\ Arrives(i) => rows' = rows /\ bucket' = bucket /\ files' = files
                              /\ nextId' = nextId]_vars

\* each kind of mutating request has been refused for a header that differs
\* from the secret only in case
C1_Witness ==
    /\ Len(reqs) = 2
    /\ reqs[1].kind = "PUT" /\ reqs[1].secret = <<"S">> /\ reqs[1].status = 401
    /\ reqs[2].kind = "DELETE" /\ reqs[2].secret = UNDEF /\ reqs[2].status = 401

\* C2 (as claimed): an update with no body field and no new image is answered
\* 400 and never calls the store's update.
C2_EmptyUpdateIs400 ==
    \A i \in DOMAIN reqs :
        (reqs[i].kind = "PUT" /\ reqs[i].handled /\ DOMAIN reqs[i].body = {}
         /\ reqs[i].file = <<>>) =>
            /\ "update" \notin reqs[i].calls
            /\ reqs[i].pc = "done" => reqs[i].status = 400

\* C3 (as claimed): a delete for an id that has no row is answered 404 and
\* attempts neither the row deletion nor an object removal.
C3_DeleteMissingIs404 ==
    \A i \in DOMAIN reqs :
        (reqs[i].kind = "DELETE" /\ reqs[i].hit = "none") =>
            /\ "delete" \notin reqs[i].calls
            /\ "remove" \notin reqs[i].calls
            /\ reqs[i].pc = "done" => reqs[i].status = 404

\* C4 (as claimed): an update with at least one non-empty field for an id that matches
\* no row is answered 404 and leaves every row unchanged.
C4_UpdateMissingIs404 ==
    [][\A i \in DOMAIN reqs :
         (reqs[i].kind = "PUT" /\ reqs[i].pc = "update" /\ reqs'[i].pc = "done"
          /\ (\E f \in DOMAIN reqs[i].body : reqs[i].body[f] # EMPTY)
          /\ reqs'[i].hit = "none") =>
             reqs'[i].status = 404 /\ rows' = rows]_vars

\* the body lacks field f, or carries it empty
Lacks(body, f) == f \notin DOMAIN body \/ body[f] = EMPTY

\* C5: a create request without a name, an affiliate link or an image is
\* answered 400 at once and makes no call; the step that receives it leaves
\* the rows and the bucket as they were.
C5_InvalidCreateHasNoEffect ==
    [][\A i \in DOMAIN reqs' :
         (reqs'[i].kind = "POST" /\ reqs'[i].handled
          /\ (Lacks(reqs'[i].body, "name") \/ Lacks(reqs'[i].body, "affiliateLink")
              \/ reqs'[i].file = <<>>)) =>
             /\ reqs'[i].status = 400 /\ reqs'[i].pc = "done"
             /\ reqs'[i].calls = {}
             /\ Arrives(i) => rows' = rows /\ bucket' = bucket /\ nextId' = nextId]_vars

\* a create with an image and a name but no affiliate link was answered 400,
\* and so was one with every field but no image
C5_Witness ==
    /\ Len(reqs) = 2
    /\ reqs[1].kind = "POST" /\ reqs[1].status = 400 /\ reqs[1].file # <<>>
    /\ reqs[1].body = [name |-> S_T]
    /\ reqs[2].kind = "POST" /\ reqs[2].status = 400 /\ reqs[2].file = <<>>
    /\ reqs[2].body = FullBody(S_T, TRUESTR)

\* C6: in create, a failed upload or an unresolved public URL ends the
\* request with 500 and no insert; the storage step goes on to the insert
\* only with an object it has just put in the bucket and that object's URL;
\* and the row an insert adds carries that URL, never null.
C6_NoInsertWithoutImage ==
    [][\A i \in DOMAIN reqs' :
         reqs'[i].kind = "POST" =>
             /\ reqs'[i].error \in {"upload", "url"} =>
                    /\ reqs'[i].status = 500 /\ reqs'[i].pc = "done"
                    /\ "insert" \notin reqs'[i].calls
             /\ (~Arrives(i) /\ reqs[i].pc = "upload" /\ reqs'[i].pc = "insert") =>
                    /\ reqs'[i].path \in bucket' \ bucket
                    /\ reqs'[i].image = PublicUrl(reqs'[i].path)
             /\ (~Arrives(i) /\ reqs[i].pc = "insert" /\ reqs'[i].status = 201) =>
                    /\ reqs'[i].id \in DOMAIN rows' \ DOMAIN rows
                    /\ Truthy(rows'[reqs'[i].id].image_url)
                    /\ rows'[reqs'[i].id].image_url = PublicUrl(reqs'[i].path)]_vars

\* one create ended 500 on an unresolved URL, its object left in the bucket,
\* and another inserted its row
C6_Witness ==
    /\ Len(reqs) = 2
    /\ reqs[1].kind = "POST" /\ reqs[1].error = "url" /\ reqs[1].status = 500
    /\ reqs[1].path \in bucket
    /\ reqs[2].kind = "POST" /\ reqs[2].status = 201
    /\ reqs[2].id \in DOMAIN rows /\ Truthy(rows[reqs[2].id].image_url)

\* the rows a list request with these filters matches
Matching(category, search) ==
    {k \in DOMAIN rows : Matches(rows[k], category, search)}

\* C7: a list request whose query succeeds is answered 200 with the count T
\* of the matching rows, totalPages the least n with n * L >= T (0 when
\* T = 0), at most L products, and no product on a page beyond totalPages.
C7_Pagination ==
    listed.status # 0 =>
        IF listed.error # "none" THEN listed.status = 500
        ELSE LET L == IF listed.limit = UNDEF THEN DefaultLimit
                      ELSE ParseInt(listed.limit)
                 T == Cardinality(Matching(listed.category, listed.search))
             IN  /\ listed.status = 200
                 /\ listed.totalProducts = T
                 /\ listed.totalPages >= 0
                 /\ listed.totalPages * L >= T
                 /\ (listed.totalPages - 1) * L < T
                 /\ Len(listed.products) <= L
                 /\ listed.currentPage > listed.totalPages => listed.products = <<>>
                 /\ T = 0 => listed.totalPages = 0 /\ listed.products = <<>>

\* page 3 of three products, two to a page: 200, two pages, no product
C7_Witness ==
    /\ listed.status = 200 /\ listed.limit = Digits(2)
    /\ listed.totalProducts = 3 /\ listed.totalPages = 2
    /\ listed.currentPage = 3 /\ listed.products = <<>>

\* C8: once a create or update request that staged a file is answered, the
\* file it staged is not in the uploads directory.
C8_StagedFileRemoved ==
    \A i \in DOMAIN reqs :
        (reqs[i].kind \in {"POST", "PUT"} /\ reqs[i].file # <<>>
         /\ reqs[i].pc = "done") =>
            ~(reqs[i].file \in DOMAIN files /\ files[reqs[i].file] = i)

\* a create refused for a missing field and an update that found no row,
\* each with a staged image, are answered and the directory is empty
C8_Witness ==
    /\ Len(reqs) = 2
    /\ reqs[1].kind = "POST" /\ reqs[1].file # <<>> /\ reqs[1].status = 400
    /\ reqs[2].kind = "PUT" /\ reqs[2].file # <<>> /\ reqs[2].error = "update"
    /\ reqs[2].hit = "none"
    /\ files = <<>>

\* the row deletion of request r succeeded
RowDeleted(r) == r.kind = "DELETE" /\ "delete" \in r.calls /\ r.error # "delete"

\* a list request is answered in this step
Lists == Len(reqs') = Len(reqs) + 1 /\ reqs'[Len(reqs')].kind = "GET"

Elems(seq) == {seq[k] : k \in DOMAIN seq}

\* C9: a delete whose row deletion failed ends 500 without an object
\* removal, any other delete that reached the row deletion ends 200 whether
\* the removal failed or not; and once the row deletion of an existing id
\* has succeeded the row is gone and no later list response holds it.
C9_DeleteOutcome ==
    [][/\ \A i \in DOMAIN reqs' :
            (reqs'[i].kind = "DELETE" /\ reqs'[i].pc = "done"
             /\ "delete" \in reqs'[i].calls) =>
                IF reqs'[i].error = "delete"
                THEN reqs'[i].status = 500 /\ "remove" \notin reqs'[i].calls
                ELSE reqs'[i].status = 200
       /\ \A i \in DOMAIN reqs :
            (RowDeleted(reqs[i]) /\ reqs[i].hit = "row") =>
                /\ reqs[i].id \notin DOMAIN rows
                /\ reqs[i].id \notin DOMAIN rows'
                /\ Lists => reqs[i].id \notin Elems(listed'.products)]_vars

\* the seeded row was deleted, the removal of its image failed, the delete
\* was answered 200 and a later unfiltered list found no product
C9_Witness ==
    /\ Len(reqs) = 2
    /\ reqs[1].kind = "DELETE" /\ reqs[1].hit = "row" /\ reqs[1].status = 200
    /\ reqs[1].error = "remove"
    /\ reqs[2].kind = "GET" /\ reqs[2].status = 200
    /\ listed.category = UNDEF /\ listed.search = UNDEF /\ listed.totalProducts = 0

LaterPath == CreatePath(1, Filename(1, <<"a", "-", "b">>))
LaterRow == ProductData([name |-> S_T, affiliateLink |-> S_te], PublicUrl(LaterPath))

\* the store once that create has been answered, the clock still at 1
InitLater ==
    /\ adminSecret \in {UNDEF, SECRET}
    /\ rows = Inserted(1 :> SeedRow, 2, LaterRow)
    /\ nextId = 3
    /\ bucket = {SeedPath, LaterPath}
    /\ files = <<>>
    /\ now = 1
    /\ reqs = <<>>
    /\ listed = NoList

SpecLater == InitLater /\ [][Next]_vars

\* the store of InitLater, reached from Init by one create
LaterStoreReached ==
    /\ rows = Inserted(1 :> SeedRow, 2, LaterRow)
    /\ bucket = {SeedPath, LaterPath}
    /\ nextId = 3 /\ now = 1 /\ files = <<>>
    /\ Len(reqs) = 1 /\ reqs[1].pc = "done"

\* C11 (as claimed): in every reachable state the image_url of every row is
\* the public URL of an object that is in the bucket.
C11_ImagesPresent ==
    \A k \in DOMAIN rows :
        Truthy(rows[k].image_url) =>
            \E p \in bucket : rows[k].image_url = PublicUrl(p)

====
